---- MODULE Spec2Model ----
(***************************************************************************)
(* rusty-spout: the RustySpout wrapper (src/src/lib.rs) around the opaque  *)
(* SPOUTLIBRARY pointer, with the engine behind the FFI as the environment.*)
(*                                                                         *)
(* Every operation of the wrapper is a pure operator from the stored       *)
(* handle, the arguments and the engine's answers to an Outcome: the       *)
(* result returned to the caller, the engine calls made (in order) and the *)
(* handle stored afterwards.  The actions draw arguments and engine        *)
(* answers from small sets and apply the operators.                        *)
(*                                                                         *)
(* Spec runs the wrapper against an engine that may answer anything.       *)
(* NameSpec and MemorySpec run it against a stub engine that keeps the     *)
(* sender name, respectively the named memory buffer, it was given.        *)
(* GdSpec drives the wrapper through the host adapter SpoutGd              *)
(* (src/src/godot.rs).                                                     *)
(***************************************************************************)
EXTENDS Integers, Sequences, FiniteSets, TLC

\* ------------------------------------------------------------------ bounds
\* Handles the engine factory hands out in one run.
MaxHandles == 2
\* Longest text argument (in bytes).
MaxLen == 2
\* Most bytes the engine writes into an output buffer in one call.
MaxWrite == 2
\* Width of usize / isize, scaled down from 64 bits.
UsizeBits == 5
\* Width of c_int (i32), scaled down from 32 bits; always below UsizeBits.
CIntBits == 3

RECURSIVE Pow2(_)
Pow2(n) == IF n = 0 THEN 1 ELSE 2 * Pow2(n - 1)

UsizeMax == Pow2(UsizeBits) - 1
IsizeMax == Pow2(UsizeBits - 1) - 1
CIntMax == Pow2(CIntBits - 1) - 1

\* ------------------------------------------------------------------ values
\* Option<*mut SPOUTLIBRARY>::None, and the null pointer of the FFI.
None == 0
NULL == 0

NUL == 0
\* Bytes of a Rust &str argument: the nul byte and two ASCII letters.
TextBytes == {NUL, 97, 98}
\* Bytes the engine may place in memory: nul, the pre-fill byte 0x01, a
\* letter, and 0xFF, which is never part of valid UTF-8.
EngineBytes == {NUL, 1, 97, 255}

RECURSIVE SeqsUpTo(_, _)
SeqsUpTo(S, n) ==
  IF n = 0 THEN {<<>>}
  ELSE LET shorter == SeqsUpTo(S, n - 1)
       IN  shorter \cup {Append(s, b) : s \in {t \in shorter : Len(t) = n - 1}, b \in S}

Text == SeqsUpTo(TextBytes, MaxLen)

Range(s) == {s[i] : i \in 1..Len(s)}

\* Requested output-buffer capacities: the edges of usize, isize and c_int.
Capacities ==
  {0, 1, 2, CIntMax, CIntMax + 1, IsizeMax, IsizeMax + 1, IsizeMax + 2, UsizeMax}

\* ----------------------------------------------------------------- results
\* Result<T, Error>, plus the two ways a call fails to return.  flag is
\* the bool of an Ok value, str its string, val its enum variant.
Res(kind, ffi, flag, str, val) ==
  [kind |-> kind, ffi |-> ffi, flag |-> flag, str |-> str, val |-> val]
OkUnit == Res("Ok", "-", FALSE, <<>>, "-")
OkBool(b) == Res("Ok", "-", b, <<>>, "-")
OkStr(b, s) == Res("Ok", "-", b, s, "-")
OkVal(v) == Res("Ok", "-", FALSE, <<>>, v)
ErrNoHandle == Res("NoHandle", "-", FALSE, <<>>, "-")
ErrNullPtr == Res("NullPtr", "-", FALSE, <<>>, "-")
ErrUnbindable == Res("Unbindable", "-", FALSE, <<>>, "-")
ErrUnexpectedValue == Res("UnexpectedValue", "-", FALSE, <<>>, "-")
ErrInto(ffi) == Res("FfiTypeInto", ffi, FALSE, <<>>, "-")
ErrFrom(ffi) == Res("FfiTypeFrom", ffi, FALSE, <<>>, "-")
\* panic!: the call unwinds instead of returning.
Panicked == Res("Panic", "-", FALSE, <<>>, "-")
\* The process is stopped (handle_alloc_error, or the allocator finding
\* its heap overwritten): nothing is unwound.
Aborted == Res("Abort", "-", FALSE, <<>>, "-")

\* One call across the FFI: the entry point, the instance it is made on
\* (NULL for the factory), the nul-terminated strings passed, the buffer
\* whose address is passed for output and the count passed with it.
Call(fn, on, strs, buf, count) ==
  [fn |-> fn, on |-> on, strs |-> strs, buf |-> buf, count |-> count]
NoCount == -1
\* A call that passes an integer code and strings.
CallWith(fn, on, int, strs) ==
  [fn |-> fn, on |-> on, strs |-> strs, buf |-> <<>>, count |-> NoCount, int |-> int]

Outcome(result, calls, lib) == [result |-> result, calls |-> calls, library |-> lib]

\* ------------------------------------------------------------- marshaling
\* Mutant: the bytes are taken as they are, no terminator is appended.
CString_new_unterminated(s) ==
  IF NUL \in Range(s)
  THEN [ok |-> FALSE, bytes |-> <<>>]
  ELSE [ok |-> TRUE, bytes |-> s]

\* CString::new: fails on an interior nul, else appends the terminator.
CString_new(s) ==
  IF NUL \in Range(s)
  THEN [ok |-> FALSE, bytes |-> <<>>]
  ELSE [ok |-> TRUE, bytes |-> Append(s, NUL)]

\* CStr::from_bytes_with_nul: the first nul must be the last byte.
CStr_from_bytes_with_nul(buf) ==
  /\ Len(buf) > 0
  /\ buf[Len(buf)] = NUL
  /\ \A i \in 1..(Len(buf) - 1) : buf[i] # NUL

\* str::from_utf8 over the model's bytes: only 0xFF is ill-formed.
Utf8Valid(bytes) == 255 \notin Range(bytes)

\* Mutant: to_string_lossy, every ill-formed byte becomes the replacement
\* character (modelled as the byte 253).
CStr_to_str_lossy(buf) ==
  [ok |-> TRUE,
   str |-> [i \in 1..(Len(buf) - 1) |-> IF buf[i] = 255 THEN 253 ELSE buf[i]]]

\* CStr::to_str: the bytes of the CStr without its last byte, if UTF-8.
\* The CStr keeps the length it was created with.
CStr_to_str(buf) ==
  LET bytes == SubSeq(buf, 1, Len(buf) - 1)
  IN  [ok |-> Utf8Valid(bytes), str |-> bytes]

\* i32::try_from(usize)
usize_to_c_int(n) == [ok |-> n <= CIntMax, v |-> n]

\* `n as i32`: keeps the low CIntBits bits, read as two's complement.
as_c_int(n) ==
  LET m == n % Pow2(CIntBits)
  IN  IF m > CIntMax THEN m - Pow2(CIntBits) ELSE m

Ones(n) == [i \in 1..n |-> 1]

\* Mutant: the length is max.saturating_sub(1), so a capacity of 0 yields the
\* one-byte buffer.
output_buffer_saturating(max, overflow_checks) ==
  LET n == IF max = 0 THEN 0 ELSE max - 1
  IN  IF n > IsizeMax THEN [how |-> "panic", buf |-> <<>>]
      ELSE IF n = IsizeMax THEN [how |-> "abort", buf |-> <<>>]
      ELSE [how |-> "ok", buf |-> Append(Ones(n), NUL)]

\* vec![1; max - 1] followed by push(0).
\*  - max = 0: `max - 1` panics when overflow checks are compiled in, and
\*    wraps to usize::MAX otherwise;
\*  - more than isize::MAX bytes: Vec panics with "capacity overflow";
\*  - exactly isize::MAX bytes: Vec accepts the size and asks the allocator,
\*    which cannot provide half the address space: the process aborts;
\*  - below that the allocator is taken to provide the memory.
output_buffer(max, overflow_checks) ==
  IF max = 0 /\ overflow_checks THEN [how |-> "panic", buf |-> <<>>]
  ELSE LET n == (max - 1) % Pow2(UsizeBits)
       IN  IF n > IsizeMax THEN [how |-> "panic", buf |-> <<>>]
           ELSE IF n = IsizeMax THEN [how |-> "abort", buf |-> <<>>]
           ELSE [how |-> "ok", buf |-> Append(Ones(n), NUL)]

\* What the buffer holds after the engine wrote `w` at its start.
Written(buf, w) ==
  [i \in 1..Len(buf) |-> IF i <= Len(w) THEN w[i] ELSE buf[i]]

\* -------------------------------------------------------- handle manager
\* Mutant: the guard lets every call through.
library_held_unguarded(lib) == TRUE

\* library!: a usable handle, or the early return of Err(NoHandle).
library_held(lib) == lib # None

\* RustySpout::new
new == None

\* Mutant: the factory's answer is stored before it is checked for null.
get_spout_stores_first(lib, handle) ==
  LET factory == <<Call("GetSpout", NULL, <<>>, <<>>, NoCount)>>
  IN  IF handle = NULL
      THEN Outcome(ErrNoHandle, factory, None)
      ELSE Outcome(OkUnit, factory, handle)

\* RustySpout::get_spout, `handle` being what ffi::GetSpout() returned.
get_spout(lib, handle) ==
  LET factory == <<Call("GetSpout", NULL, <<>>, <<>>, NoCount)>>
  IN  IF handle = NULL
      THEN Outcome(ErrNoHandle, factory, lib)
      ELSE Outcome(OkUnit, factory, handle)

\* Mutant: release() calls the engine but keeps the stored handle.
release_keeps_handle(lib) ==
  IF lib = None THEN Outcome(ErrNoHandle, <<>>, lib)
  ELSE Outcome(OkUnit, <<Call("Release", lib, <<>>, <<>>, NoCount)>>, lib)

\* RustySpout::release
release(lib) ==
  IF ~library_held(lib) THEN Outcome(ErrNoHandle, <<>>, lib)
  ELSE Outcome(OkUnit, <<Call("Release", lib, <<>>, <<>>, NoCount)>>, None)

\* Mutant: Drop calls Release without looking at the stored handle.
drop_unconditional(lib) ==
  Outcome(OkUnit, <<Call("Release", lib, <<>>, <<>>, NoCount)>>, lib)

\* Mutant: Drop leaves the handle to the engine.
drop_forgets(lib) == Outcome(OkUnit, <<>>, lib)

\* Drop for RustySpout
drop(lib) ==
  IF lib # None
  THEN Outcome(OkUnit, <<Call("Release", lib, <<>>, <<>>, NoCount)>>, lib)
  ELSE Outcome(OkUnit, <<>>, lib)

\* ------------------------------------------------------ capability surface
\* Operations that are library! followed by one engine call whose value is
\* returned as it is (unit, a number, an opaque handle or a C++ string).
PlainOps ==
  {"set_sender_format", "release_sender", "get_width", "get_height", "get_fps",
   "get_frame", "get_handle", "release_receiver", "get_sender_width",
   "get_sender_height", "get_sender_format", "get_sender_fps", "get_sender_frame",
   "get_sender_handle", "select_sender", "set_frame_count", "disable_frame_count",
   "hold_fps", "get_refresh_rate", "open_spout_console", "close_spout_console",
   "enable_spout_log", "get_spout_log", "show_spout_logs", "disable_spout_log",
   "set_spout_log_level", "get_sdk_version", "start_timing", "end_timing",
   "get_shared_texture_id", "get_sender_count", "set_buffer_mode", "get_buffers",
   "set_buffers", "get_max_senders", "set_max_senders", "get_share_mode",
   "set_share_mode", "select_sender_panel", "get_vertical_sync",
   "get_spout_version", "set_auto_share", "get_num_adapters", "get_adapter",
   "close_directx", "close_directx11"}

\* Operations that are library! followed by one engine call returning the
\* engine's status flag.
StatusOps ==
  {"send_fbo", "send_texture", "send_image", "get_cpu", "get_gl_dx",
   "receive_texture", "receive_image", "is_updated", "is_connected", "is_frame_new",
   "get_sender_cpu", "get_sender_gl_dx", "is_frame_count_enabled",
   "delete_memory_buffer", "is_laptop", "is_initialized", "bind_shared_texture",
   "unbind_shared_texture", "get_buffer_mode", "get_dx9", "set_dx9",
   "get_memory_share_mode", "set_memory_share_mode", "get_cpu_mode", "set_cpu_mode",
   "set_vertical_sync", "get_auto_share", "is_gl_dx_ready", "set_preferred_adapter",
   "is_preference_available", "create_opengl", "close_opengl", "copy_texture",
   "open_directx", "open_directx11"}

\* One text argument, encoded with CString::new, then one engine call.
TextPlainOps ==
  {"set_sender_name", "set_receiver_name", "set_frame_sync", "enable_spout_log_file",
   "get_memory_buffer_size", "spout_message_box"}
TextStatusOps ==
  {"wait_frame_sync", "create_memory_buffer", "find_sender_name", "set_active_sender",
   "create_sender", "update_sender",
   "is_application_path"}

\* Pointer-returning queries: a C string, or an opaque device pointer.
StringPtrOps == {"get_name", "get_sender_name"}
RawPtrOps == {"get_dx11_device", "get_dx11_context"}

\* Operations that hand the engine a buffer of the requested capacity.
IndexedBufferOps == {"get_sender", "get_adapter_name", "get_preferred_adapter_name"}

UnbindableOps ==
  {"spout_log", "spout_log_verbose", "spout_log_notice", "spout_log_warning",
   "spout_log_error", "spout_log_fatal", "read_dword_from_registry",
   "write_dword_to_registry", "read_path_from_registry", "write_path_to_registry",
   "remove_path_from_registry", "remove_sub_key", "find_sub_key"}

\* Bodies that are todo!() alone.
TodoOps == {"create_receiver", "check_receiver"}

\* Mutant: the forward is made on whatever is stored, without the guard.
plain_forward_unchecked(lib, op) ==
  Outcome(OkUnit, <<Call(op, lib, <<>>, <<>>, NoCount)>>, lib)

\* set_sender_format .. close_directx11
plain_forward(lib, op) ==
  IF ~library_held(lib) THEN Outcome(ErrNoHandle, <<>>, lib)
  ELSE Outcome(OkUnit, <<Call(op, lib, <<>>, <<>>, NoCount)>>, lib)

\* Mutant: a false flag makes the wrapper call the engine once more.
status_forward_retries(lib, op, ret) ==
  IF lib = None THEN Outcome(ErrNoHandle, <<>>, lib)
  ELSE IF ret THEN Outcome(OkBool(ret), <<Call(op, lib, <<>>, <<>>, NoCount)>>, lib)
  ELSE Outcome(OkBool(ret), <<Call(op, lib, <<>>, <<>>, NoCount),
                              Call(op, lib, <<>>, <<>>, NoCount)>>, lib)

\* send_fbo .. open_directx11, `ret` being the flag the engine returned.
status_forward(lib, op, ret) ==
  IF ~library_held(lib) THEN Outcome(ErrNoHandle, <<>>, lib)
  ELSE Outcome(OkBool(ret), <<Call(op, lib, <<>>, <<>>, NoCount)>>, lib)

\* Mutant: the pointer passed is to the bytes of the &str, which carry no
\* terminator.
text_forward_unterminated(lib, op, text, ret) ==
  IF lib = None THEN Outcome(ErrNoHandle, <<>>, lib)
  ELSE IF NUL \in Range(text) THEN Outcome(ErrInto("CString"), <<>>, lib)
  ELSE Outcome(IF op \in TextStatusOps THEN OkBool(ret) ELSE OkUnit,
               <<Call(op, lib, <<text>>, <<>>, NoCount)>>, lib)

\* set_sender_name .. is_application_path
text_forward(lib, op, text, ret) ==
  IF ~library_held(lib) THEN Outcome(ErrNoHandle, <<>>, lib)
  ELSE LET name == CString_new(text)
       IN  IF ~name.ok THEN Outcome(ErrInto("CString"), <<>>, lib)
           ELSE Outcome(IF op \in TextStatusOps THEN OkBool(ret) ELSE OkUnit,
                        <<Call(op, lib, <<name.bytes>>, <<>>, NoCount)>>, lib)

\* Mutant: only the first text argument is checked for a nul; the data is
\* handed over as it is, with a terminator appended.
write_memory_buffer_unchecked_data(lib, sender_name, data, ret) ==
  IF lib = None THEN Outcome(ErrNoHandle, <<>>, lib)
  ELSE LET name == CString_new(sender_name)
       IN  IF ~name.ok THEN Outcome(ErrInto("CString"), <<>>, lib)
           ELSE Outcome(OkBool(ret),
                        <<Call("write_memory_buffer", lib,
                               <<name.bytes, Append(data, NUL)>>, <<>>,
                               as_c_int(Len(data) + 1))>>, lib)

\* write_memory_buffer
write_memory_buffer(lib, sender_name, data, ret) ==
  IF ~library_held(lib) THEN Outcome(ErrNoHandle, <<>>, lib)
  ELSE LET name == CString_new(sender_name)
           cdata == CString_new(data)
       IN  IF ~name.ok THEN Outcome(ErrInto("CString"), <<>>, lib)
           ELSE IF ~cdata.ok THEN Outcome(ErrInto("CString"), <<>>, lib)
           ELSE Outcome(OkBool(ret),
                        <<Call("write_memory_buffer", lib, <<name.bytes, cdata.bytes>>,
                               <<>>, as_c_int(Len(cdata.bytes)))>>, lib)

\* Mutant: the unbindable operations go through the handle guard first.
unbindable_guarded(lib, op) ==
  IF lib = None THEN Outcome(ErrNoHandle, <<>>, lib)
  ELSE Outcome(ErrUnbindable, <<>>, lib)

\* spout_log .. find_sub_key
unbindable(lib, op) == Outcome(ErrUnbindable, <<>>, lib)

\* create_receiver, check_receiver
todo(lib, op) == Outcome(Panicked, <<>>, lib)

\* get_sender_info: the guard and the encoding are in place, the call is not.
get_sender_info(lib, sender_name) ==
  IF ~library_held(lib) THEN Outcome(ErrNoHandle, <<>>, lib)
  ELSE IF ~CString_new(sender_name).ok THEN Outcome(ErrInto("CString"), <<>>, lib)
  ELSE Outcome(Panicked, <<>>, lib)

\* read_memory_buffer: `w` is what the engine writes into the buffer.
read_memory_buffer(lib, sender_name, max_length, overflow_checks, w) ==
  IF ~library_held(lib) THEN Outcome(ErrNoHandle, <<>>, lib)
  ELSE LET name == CString_new(sender_name)
           buffer == output_buffer(max_length, overflow_checks)
           count == usize_to_c_int(max_length)
           data == CStr_to_str(Written(buffer.buf, w))
       IN  IF ~name.ok THEN Outcome(ErrInto("CString"), <<>>, lib)
           ELSE IF buffer.how = "panic" THEN Outcome(Panicked, <<>>, lib)
           ELSE IF buffer.how = "abort" THEN Outcome(Aborted, <<>>, lib)
           ELSE IF ~CStr_from_bytes_with_nul(buffer.buf)
                THEN Outcome(ErrInto("CStr"), <<>>, lib)
           ELSE IF ~count.ok THEN Outcome(ErrInto("CInt"), <<>>, lib)
           ELSE Outcome(IF data.ok THEN OkStr(FALSE, data.str) ELSE ErrFrom("CString"),
                        <<Call("read_memory_buffer", lib, <<name.bytes>>,
                               buffer.buf, count.v)>>, lib)

\* Mutant: the buffer is sized and the count converted before the handle is
\* looked at.
indexed_buffer_sizes_first(lib, op, max_size, overflow_checks, w, ret) ==
  LET buffer == output_buffer(max_size, overflow_checks)
      count == usize_to_c_int(max_size)
      data == CStr_to_str(Written(buffer.buf, w))
  IN  IF buffer.how = "panic" THEN Outcome(Panicked, <<>>, lib)
      ELSE IF buffer.how = "abort" THEN Outcome(Aborted, <<>>, lib)
      ELSE IF ~count.ok THEN Outcome(ErrInto("CInt"), <<>>, lib)
      ELSE IF lib = None THEN Outcome(ErrNoHandle, <<>>, lib)
      ELSE Outcome(IF data.ok THEN OkStr(ret, data.str) ELSE ErrFrom("CString"),
                   <<Call(op, lib, <<>>, buffer.buf, count.v)>>, lib)

\* get_sender, get_adapter_name, get_preferred_adapter_name (whose
\* preference always encodes): `ret` and `w` are the engine's answers.
indexed_buffer(lib, op, max_size, overflow_checks, w, ret) ==
  IF ~library_held(lib) THEN Outcome(ErrNoHandle, <<>>, lib)
  ELSE LET buffer == output_buffer(max_size, overflow_checks)
           count == usize_to_c_int(max_size)
           data == CStr_to_str(Written(buffer.buf, w))
       IN  IF buffer.how = "panic" THEN Outcome(Panicked, <<>>, lib)
           ELSE IF buffer.how = "abort" THEN Outcome(Aborted, <<>>, lib)
           ELSE IF ~CStr_from_bytes_with_nul(buffer.buf)
                THEN Outcome(ErrInto("CStr"), <<>>, lib)
           ELSE IF ~count.ok THEN Outcome(ErrInto("CInt"), <<>>, lib)
           ELSE Outcome(IF data.ok THEN OkStr(ret, data.str) ELSE ErrFrom("CString"),
                        <<Call(op, lib, <<>>, buffer.buf, count.v)>>, lib)

\* The engine wrote past the end of the buffer it was given: the heap next
\* to the buffer is overwritten.
Overrun(buf, w) == Len(w) > Len(buf)

\* get_active_sender: the buffer is the single byte pushed onto vec![].
\* After an overrun the process either goes on (`crash` false) or is stopped
\* by the allocator when the buffer is freed.
get_active_sender(lib, w, ret, crash) ==
  IF ~library_held(lib) THEN Outcome(ErrNoHandle, <<>>, lib)
  ELSE LET buffer == <<NUL>>
           data == CStr_to_str(Written(buffer, w))
           call == <<Call("get_active_sender", lib, <<>>, buffer, NoCount)>>
       IN  IF ~CStr_from_bytes_with_nul(buffer) THEN Outcome(ErrInto("CStr"), <<>>, lib)
           ELSE IF Overrun(buffer, w) /\ crash THEN Outcome(Aborted, call, lib)
           ELSE Outcome(IF data.ok THEN OkStr(ret, data.str) ELSE ErrFrom("CString"),
                        call, lib)

\* get_host_path: the output buffer is the encoded host_path argument, the
\* count is the caller's max_chars.  `crash` as for get_active_sender.
get_host_path(lib, sender_name, host_path, max_chars, w, ret, crash) ==
  IF ~library_held(lib) THEN Outcome(ErrNoHandle, <<>>, lib)
  ELSE LET name == CString_new(sender_name)
           path == CString_new(host_path)
           data == CStr_to_str(Written(path.bytes, w))
           call == <<Call("get_host_path", lib, <<name.bytes>>, path.bytes, max_chars)>>
       IN  IF ~name.ok THEN Outcome(ErrInto("CString"), <<>>, lib)
           ELSE IF ~path.ok THEN Outcome(ErrInto("CString"), <<>>, lib)
           ELSE IF Overrun(path.bytes, w) /\ crash THEN Outcome(Aborted, call, lib)
           ELSE Outcome(IF data.ok THEN OkStr(ret, data.str) ELSE ErrFrom("CString"),
                        call, lib)

\* CStr::from_ptr: the bytes up to and including the first nul.
RECURSIVE CStr_from_ptr(_)
CStr_from_ptr(mem) ==
  IF mem = <<>> \/ Head(mem) = NUL THEN <<NUL>>
  ELSE <<Head(mem)>> \o CStr_from_ptr(Tail(mem))

\* Mutant: the pointer is read before it is compared with null.
string_ptr_reads_first(lib, op, ptr, mem) ==
  IF lib = None THEN Outcome(ErrNoHandle, <<>>, lib)
  ELSE LET call == <<Call(op, lib, <<>>, <<>>, NoCount)>>
           name == CStr_to_str(CStr_from_ptr(mem))
       IN  IF ptr = NULL THEN Outcome(Aborted, call, lib)
           ELSE IF name.ok THEN Outcome(OkStr(FALSE, name.str), call, lib)
           ELSE Outcome(ErrFrom("CStr"), call, lib)

\* get_name, get_sender_name: `ptr` is NULL or the address of `mem`, a
\* nul-terminated string of the engine.
string_ptr(lib, op, ptr, mem) ==
  IF ~library_held(lib) THEN Outcome(ErrNoHandle, <<>>, lib)
  ELSE LET call == <<Call(op, lib, <<>>, <<>>, NoCount)>>
           name == CStr_to_str(CStr_from_ptr(mem))
       IN  IF ptr = NULL THEN Outcome(ErrNullPtr, call, lib)
           ELSE IF name.ok THEN Outcome(OkStr(FALSE, name.str), call, lib)
           ELSE Outcome(ErrFrom("CStr"), call, lib)

\* Mutant: a null pointer from the engine makes the wrapper give up its
\* handle.
raw_ptr_forgets_handle(lib, op, ptr) ==
  IF lib = None THEN Outcome(ErrNoHandle, <<>>, lib)
  ELSE LET call == <<Call(op, lib, <<>>, <<>>, NoCount)>>
       IN  IF ptr = NULL THEN Outcome(ErrNullPtr, call, None)
           ELSE Outcome(OkUnit, call, lib)

\* get_dx11_device, get_dx11_context
raw_ptr(lib, op, ptr) ==
  IF ~library_held(lib) THEN Outcome(ErrNoHandle, <<>>, lib)
  ELSE LET call == <<Call(op, lib, <<>>, <<>>, NoCount)>>
       IN  IF ptr = NULL THEN Outcome(ErrNullPtr, call, lib)
           ELSE Outcome(OkUnit, call, lib)

DxgiGpuPreference == {"NotRegistered", "Unspecified", "MinimumPower", "HighPerformance"}

\* TryInto<i32> for DxgiGpuPreference
DxgiGpuPreference_try_into(preference) ==
  CASE preference = "NotRegistered" -> [ok |-> TRUE, v |-> -1]
    [] preference = "Unspecified" -> [ok |-> TRUE, v |-> 0]
    [] preference = "MinimumPower" -> [ok |-> TRUE, v |-> 1]
    [] preference = "HighPerformance" -> [ok |-> TRUE, v |-> 2]
    [] OTHER -> [ok |-> FALSE, v |-> 0]

\* TryInto<String> for DxgiGpuPreference
DxgiGpuPreference_try_into_string(preference) ==
  CASE preference = "Unspecified" -> OkVal("DXGI_GPU_PREFERENCE_UNSPECIFIED")
    [] preference = "MinimumPower" -> OkVal("DXGI_GPU_PREFERENCE_MINIMUM_POWER")
    [] preference = "HighPerformance" -> OkVal("DXGI_GPU_PREFERENCE_HIGH_PERFORMANCE")
    [] OTHER -> ErrUnexpectedValue

\* Mutant: an integer that names no variant decodes to the default one.
DxgiGpuPreference_try_from_defaulting(value) ==
  CASE value = -1 -> OkVal("NotRegistered")
    [] value = 1 -> OkVal("MinimumPower")
    [] value = 2 -> OkVal("HighPerformance")
    [] OTHER -> OkVal("Unspecified")

\* TryFrom<i32> for DxgiGpuPreference
DxgiGpuPreference_try_from(value) ==
  CASE value = -1 -> OkVal("NotRegistered")
    [] value = 0 -> OkVal("Unspecified")
    [] value = 1 -> OkVal("MinimumPower")
    [] value = 2 -> OkVal("HighPerformance")
    [] OTHER -> ErrUnexpectedValue

\* get_performance_preference, `val` being the engine's integer.
get_performance_preference(lib, path, val) ==
  IF ~library_held(lib) THEN Outcome(ErrNoHandle, <<>>, lib)
  ELSE LET cpath == CString_new(path)
       IN  IF ~cpath.ok THEN Outcome(ErrInto("CString"), <<>>, lib)
           ELSE Outcome(DxgiGpuPreference_try_from(val),
                        <<Call("get_performance_preference", lib, <<cpath.bytes>>,
                               <<>>, NoCount)>>, lib)

\* set_performance_preference
set_performance_preference(lib, preference, path, ret) ==
  IF ~library_held(lib) THEN Outcome(ErrNoHandle, <<>>, lib)
  ELSE LET code == DxgiGpuPreference_try_into(preference)
           cpath == CString_new(path)
       IN  IF ~code.ok THEN Outcome(ErrUnexpectedValue, <<>>, lib)
           ELSE IF ~cpath.ok THEN Outcome(ErrInto("CString"), <<>>, lib)
           ELSE Outcome(OkBool(ret),
                        <<CallWith("set_performance_preference", lib, code.v,
                                   <<cpath.bytes>>)>>, lib)

\* ------------------------------------------------------------------ state
VARIABLES
  library,          \* RustySpout.library: None or the stored handle
  life,             \* "live", "dropped" after Drop, "aborted" after an abort
  overflow_checks,  \* whether the build panics on integer overflow
  issued,           \* engine: handles the factory has returned so far
  released,         \* engine: per handle, the Release calls it received
  last,             \* the call in progress: operation, arguments, result,
                    \* engine calls; "idle" between calls
  prev,             \* the result kind of the call before it when that
                    \* call was release(), "-" otherwise
  phase,            \* "new", "acquired" or "released": the last lifecycle
                    \* transition that succeeded
  engine,           \* stub engine: the sender name and the named memory
                    \* buffer it keeps, as nul-terminated bytes
  caller,           \* the name the caller last set and the data the caller
                    \* last wrote, as the caller passed them, and whether
                    \* every acquisition so far was made with no handle held
  host              \* what the host adapter returned for the call in
                    \* progress, when the call was made through it

vars == <<library, life, overflow_checks, issued, released, last, prev, phase,
          engine, caller, host>>

Handles == 1..MaxHandles

\* Strings short enough for a secondary argument.
ShortText == SeqsUpTo(TextBytes, 1)
\* What the engine may write when told it has `count` bytes.
Writes(count) ==
  SeqsUpTo(EngineBytes, IF count < MaxWrite THEN (IF count < 0 THEN 0 ELSE count)
                        ELSE MaxWrite)
\* Nul-terminated strings the engine may return a pointer to.
EngineStrings == {Append(s, NUL) : s \in SeqsUpTo(EngineBytes \ {NUL}, MaxWrite)}

NoArgs == [text |-> <<>>, cap |-> NoCount]
Args(text, cap) == [text |-> text, cap |-> cap]
ArgsWith(preference, text) == [text |-> text, cap |-> NoCount, pref |-> preference]
\* The engine's answers to the call, kept when a call was made.
Answer(w, ret) == [w |-> w, ret |-> ret]
NoAnswer == Answer(<<>>, FALSE)
\* The engine answered with an integer.
AnswerInt(val) == [w |-> <<>>, ret |-> FALSE, val |-> val]
\* Every value of c_int.
CInts == (0 - CIntMax - 1)..CIntMax

Idle ==
  [op |-> "idle", args |-> NoArgs, pre |-> None, result |-> OkUnit,
   calls |-> <<>>, answer |-> NoAnswer]

ReleaseCalls(calls, h) ==
  Cardinality({i \in 1..Len(calls) : calls[i].fn = "Release" /\ calls[i].on = h})

\* The caller may start a call: the wrapper exists and no call is running.
Ready == life = "live" /\ last = Idle

\* The engine answers only when it is called.
Called(dry) == dry.calls # <<>>

\* The wrapper performs `op`: the outcome is stored, the engine sees the calls.
Perform(op, args, answer, out) ==
  /\ library' = out.library
  /\ released' = [h \in Handles |-> released[h] + ReleaseCalls(out.calls, h)]
  /\ last' = [op |-> op, args |-> args, pre |-> library, result |-> out.result,
              calls |-> out.calls,
              answer |-> IF out.calls = <<>> THEN NoAnswer ELSE answer]
  /\ phase' = CASE op = "get_spout" /\ out.result.kind = "Ok" -> "acquired"
                [] op = "release" /\ out.result.kind = "Ok" -> "released"
                [] OTHER -> phase
  /\ life' = IF out.result = Aborted THEN "aborted" ELSE life
  /\ UNCHANGED <<overflow_checks, prev>>

\* The value a SpoutGd method returns to the host: a godot Error code, a
\* string Variant, or nothing when the core call did not return.  With it,
\* the core calls the method made and the handle the last of them left.
HostValue(kind, code) == [kind |-> kind, code |-> code]
GdError(code) == HostValue("Error", code)
GdString == HostValue("String", "-")
GdUnwound == HostValue("Unwound", "-")
NoHost == [value |-> HostValue("none", "-"), cores |-> 0, left |-> None]

Init ==
  /\ library = new
  /\ life = "live"
  /\ overflow_checks \in BOOLEAN
  /\ issued = 0
  /\ released = [h \in Handles |-> 0]
  /\ last = Idle
  /\ prev = "-"
  /\ phase = "new"
  /\ engine = [owner |-> NULL, sender |-> <<NUL>>, shared |-> FALSE,
               name |-> <<NUL>>, memory |-> <<>>]
  /\ caller = [named |-> FALSE, on |-> None, name |-> <<>>, wrote |-> FALSE,
               to |-> <<>>, data |-> <<>>, cycles |-> TRUE]
  /\ host = NoHost

\* ---------------------------------------------------------------- actions
\* The call returns to the caller, who may then make the next one.
Return ==
  /\ life # "aborted"
  /\ last # Idle
  /\ last' = Idle
  /\ prev' = IF last.op = "release" THEN last.result.kind ELSE "-"
  /\ host' = NoHost
  /\ UNCHANGED <<library, life, overflow_checks, issued, released, phase,
                  engine, caller>>

Op_get_spout ==
  /\ Ready
  /\ \E handle \in {NULL} \cup (IF issued < MaxHandles THEN {issued + 1} ELSE {}) :
       /\ Perform("get_spout", NoArgs, Answer(<<>>, handle # NULL),
                  get_spout(library, handle))
       /\ issued' = IF handle = NULL THEN issued ELSE issued + 1
       /\ caller' = [caller EXCEPT
                       !.cycles = caller.cycles /\ (handle = NULL \/ library = None)]
  /\ UNCHANGED <<engine, host>>

Op_release ==
  /\ Ready
  /\ Perform("release", NoArgs, NoAnswer, release(library))
  /\ UNCHANGED <<issued, engine, caller, host>>

\* The wrapper goes out of scope (or is unwound after a panic).
Op_drop ==
  /\ life = "live"
  /\ last = Idle \/ last.result.kind = "Panic"
  /\ LET out == drop(library)
     IN  /\ released' = [h \in Handles |-> released[h] + ReleaseCalls(out.calls, h)]
         /\ last' = [op |-> "drop", args |-> NoArgs, pre |-> library,
                     result |-> out.result, calls |-> out.calls, answer |-> NoAnswer]
  /\ life' = "dropped"
  /\ UNCHANGED <<library, overflow_checks, issued, prev, phase, engine, caller,
                  host>>

Op_plain ==
  /\ Ready
  /\ \E op \in PlainOps : Perform(op, NoArgs, NoAnswer, plain_forward(library, op))
  /\ UNCHANGED <<issued, engine, caller, host>>

Op_status ==
  /\ Ready
  /\ \E op \in StatusOps :
       \E ret \in IF Called(status_forward(library, op, FALSE)) THEN BOOLEAN ELSE {FALSE} :
         Perform(op, NoArgs, Answer(<<>>, ret), status_forward(library, op, ret))
  /\ UNCHANGED <<issued, engine, caller, host>>

Op_text ==
  /\ Ready
  /\ \E op \in TextPlainOps \cup TextStatusOps, text \in Text :
       \E ret \in IF op \in TextStatusOps /\ Called(text_forward(library, op, text, FALSE))
                  THEN BOOLEAN ELSE {FALSE} :
         Perform(op, Args(<<text>>, NoCount), Answer(<<>>, ret),
                 text_forward(library, op, text, ret))
  /\ UNCHANGED <<issued, engine, caller, host>>

\* Data whose length with the terminator is the first beyond c_int.
LongData == [i \in 1..CIntMax |-> 97]

Op_write_memory_buffer ==
  /\ Ready
  /\ \E sender_name \in ShortText, data \in Text \cup {LongData} :
       \E ret \in IF Called(write_memory_buffer(library, sender_name, data, FALSE))
                  THEN BOOLEAN ELSE {FALSE} :
         Perform("write_memory_buffer", Args(<<sender_name, data>>, NoCount),
                 Answer(<<>>, ret),
                 write_memory_buffer(library, sender_name, data, ret))
  /\ UNCHANGED <<issued, engine, caller, host>>

Op_read_memory_buffer ==
  /\ Ready
  /\ \E sender_name \in ShortText, max_length \in Capacities :
       \E w \in IF Called(read_memory_buffer(library, sender_name, max_length,
                                             overflow_checks, <<>>))
                THEN Writes(max_length) ELSE {<<>>} :
         Perform("read_memory_buffer", Args(<<sender_name>>, max_length),
                 Answer(w, FALSE),
                 read_memory_buffer(library, sender_name, max_length,
                                    overflow_checks, w))
  /\ UNCHANGED <<issued, engine, caller, host>>

Op_indexed_buffer ==
  /\ Ready
  /\ \E op \in IndexedBufferOps, max_size \in Capacities :
       LET called == Called(indexed_buffer(library, op, max_size, overflow_checks,
                                           <<>>, FALSE))
       IN  \E w \in IF called THEN Writes(max_size) ELSE {<<>>},
              ret \in IF called THEN BOOLEAN ELSE {FALSE} :
             Perform(op, Args(<<>>, max_size), Answer(w, ret),
                     indexed_buffer(library, op, max_size, overflow_checks, w, ret))
  /\ UNCHANGED <<issued, engine, caller, host>>

Op_get_active_sender ==
  /\ Ready
  /\ LET called == Called(get_active_sender(library, <<>>, FALSE, FALSE))
     IN  \E w \in IF called THEN Writes(MaxWrite) ELSE {<<>>},
            ret \in IF called THEN BOOLEAN ELSE {FALSE} :
           \E crash \in IF called /\ Overrun(<<NUL>>, w) THEN BOOLEAN ELSE {FALSE} :
             Perform("get_active_sender", NoArgs, Answer(w, ret),
                     get_active_sender(library, w, ret, crash))
  /\ UNCHANGED <<issued, engine, caller, host>>

Op_get_host_path ==
  /\ Ready
  /\ \E sender_name \in ShortText, host_path \in Text, max_chars \in {0, 1, CIntMax} :
       LET called == Called(get_host_path(library, sender_name, host_path, max_chars,
                                          <<>>, FALSE, FALSE))
       IN  \E w \in IF called THEN Writes(max_chars) ELSE {<<>>},
              ret \in IF called THEN BOOLEAN ELSE {FALSE} :
             \E crash \in IF called /\ Overrun(Append(host_path, NUL), w)
                          THEN BOOLEAN ELSE {FALSE} :
               Perform("get_host_path", Args(<<sender_name, host_path>>, max_chars),
                       Answer(w, ret),
                       get_host_path(library, sender_name, host_path, max_chars,
                                     w, ret, crash))
  /\ UNCHANGED <<issued, engine, caller, host>>

Op_string_ptr ==
  /\ Ready
  /\ \E op \in StringPtrOps :
       \E ptr \in IF Called(string_ptr(library, op, NULL, <<NUL>>)) THEN {NULL, 1}
                  ELSE {NULL} :
         \E mem \in IF ptr = NULL THEN {<<NUL>>} ELSE EngineStrings :
           Perform(op, NoArgs, Answer(IF ptr = NULL THEN <<>> ELSE mem, ptr # NULL),
                   string_ptr(library, op, ptr, mem))
  /\ UNCHANGED <<issued, engine, caller, host>>

Op_raw_ptr ==
  /\ Ready
  /\ \E op \in RawPtrOps :
       \E ptr \in IF Called(raw_ptr(library, op, NULL)) THEN {NULL, 1} ELSE {NULL} :
         Perform(op, NoArgs, Answer(<<>>, ptr # NULL), raw_ptr(library, op, ptr))
  /\ UNCHANGED <<issued, engine, caller, host>>

Op_get_performance_preference ==
  /\ Ready
  /\ \E path \in ShortText :
       \E val \in IF Called(get_performance_preference(library, path, 0))
                  THEN CInts ELSE {0} :
         Perform("get_performance_preference", Args(<<path>>, NoCount),
                 AnswerInt(val), get_performance_preference(library, path, val))
  /\ UNCHANGED <<issued, engine, caller, host>>

Op_set_performance_preference ==
  /\ Ready
  /\ \E preference \in DxgiGpuPreference, path \in ShortText :
       \E ret \in IF Called(set_performance_preference(library, preference, path, FALSE))
                  THEN BOOLEAN ELSE {FALSE} :
         Perform("set_performance_preference", ArgsWith(preference, <<path>>),
                 Answer(<<>>, ret),
                 set_performance_preference(library, preference, path, ret))
  /\ UNCHANGED <<issued, engine, caller, host>>

\* The caller converts a preference to its textual token; the wrapper is
\* not involved.
Op_try_into_string ==
  /\ Ready
  /\ \E preference \in DxgiGpuPreference :
       Perform("DxgiGpuPreference::try_into", ArgsWith(preference, <<>>), NoAnswer,
               Outcome(DxgiGpuPreference_try_into_string(preference), <<>>, library))
  /\ UNCHANGED <<issued, engine, caller, host>>

Op_unbindable ==
  /\ Ready
  /\ \E op \in UnbindableOps, text \in Text :
       Perform(op, Args(<<text>>, NoCount), NoAnswer, unbindable(library, op))
  /\ UNCHANGED <<issued, engine, caller, host>>

Op_todo ==
  /\ Ready
  /\ \E op \in TodoOps, text \in Text :
       Perform(op, Args(<<text>>, NoCount), NoAnswer, todo(library, op))
  /\ UNCHANGED <<issued, engine, caller, host>>

Op_get_sender_info ==
  /\ Ready
  /\ \E sender_name \in Text :
       Perform("get_sender_info", Args(<<sender_name>>, NoCount), NoAnswer,
               get_sender_info(library, sender_name))
  /\ UNCHANGED <<issued, engine, caller, host>>

Next ==
  \/ Return
  \/ Op_get_spout
  \/ Op_release
  \/ Op_drop
  \/ Op_plain
  \/ Op_status
  \/ Op_text
  \/ Op_write_memory_buffer
  \/ Op_read_memory_buffer
  \/ Op_indexed_buffer
  \/ Op_get_active_sender
  \/ Op_get_host_path
  \/ Op_string_ptr
  \/ Op_raw_ptr
  \/ Op_get_performance_preference
  \/ Op_set_performance_preference
  \/ Op_try_into_string
  \/ Op_unbindable
  \/ Op_todo
  \/ Op_get_sender_info

Spec == Init /\ [][Next]_vars

\* ------------------------------------------------------------ stub engine
\* The engine of the round-trip scenarios: it copies the sender name it is
\* given and returns a pointer to the copy, and it copies the bytes written
\* to a named memory buffer and copies them back on a read of that name.

\* The first n bytes of s (all of s when it is shorter, none when n < 0).
Take(s, n) == SubSeq(s, 1, IF n < Len(s) THEN (IF n < 0 THEN 0 ELSE n) ELSE Len(s))

\* set_sender_name against the stub.
Stub_set_sender_name ==
  /\ Ready
  /\ \E name \in Text :
       LET out == text_forward(library, "set_sender_name", name, FALSE)
       IN  /\ Perform("set_sender_name", Args(<<name>>, NoCount), NoAnswer, out)
           /\ engine' = IF Called(out)
                        THEN [engine EXCEPT !.owner = out.calls[1].on,
                                            !.sender = out.calls[1].strs[1]]
                        ELSE engine
           /\ caller' = IF out.result.kind = "Ok"
                        THEN [caller EXCEPT !.named = TRUE, !.on = library,
                                            !.name = name]
                        ELSE caller
  /\ UNCHANGED <<issued, host>>

\* get_name against the stub: the pointer is to the name the instance
\* holds, the empty name when none was set on it.
Stub_get_name ==
  /\ Ready
  /\ LET mem == IF engine.owner = library THEN engine.sender ELSE <<NUL>>
     IN  Perform("get_name", NoArgs, Answer(mem, TRUE),
                 string_ptr(library, "get_name", 1, mem))
  /\ UNCHANGED <<issued, engine, caller, host>>

\* write_memory_buffer against the stub: it stores `count` bytes of the data
\* under the name and reports success when there was something to store.
Stub_write_memory_buffer ==
  /\ Ready
  /\ \E sender_name \in ShortText, data \in Text :
       LET dry == write_memory_buffer(library, sender_name, data, FALSE)
           stored == Called(dry) /\ dry.calls[1].count > 0
           out == write_memory_buffer(library, sender_name, data, stored)
       IN  /\ Perform("write_memory_buffer", Args(<<sender_name, data>>, NoCount),
                      Answer(<<>>, stored), out)
           /\ engine' = IF stored
                        THEN [engine EXCEPT !.shared = TRUE,
                                            !.name = out.calls[1].strs[1],
                                            !.memory = Take(out.calls[1].strs[2],
                                                            out.calls[1].count)]
                        ELSE engine
           /\ caller' = IF stored
                        THEN [caller EXCEPT !.wrote = TRUE, !.to = sender_name,
                                            !.data = data]
                        ELSE caller
  /\ UNCHANGED <<issued, host>>

\* read_memory_buffer against the stub: it copies what it stored under the
\* name into the buffer, as far as the count allows.
Stub_read_memory_buffer ==
  /\ Ready
  /\ \E sender_name \in ShortText, max_length \in Capacities :
       LET dry == read_memory_buffer(library, sender_name, max_length,
                                     overflow_checks, <<>>)
           w == IF Called(dry) /\ engine.shared /\ engine.name = dry.calls[1].strs[1]
                THEN Take(engine.memory, dry.calls[1].count)
                ELSE <<>>
       IN  Perform("read_memory_buffer", Args(<<sender_name>>, max_length),
                   Answer(w, FALSE),
                   read_memory_buffer(library, sender_name, max_length,
                                      overflow_checks, w))
  /\ UNCHANGED <<issued, engine, caller, host>>

\* The wrapper against the stub that keeps the sender name.
NameNext ==
  \/ Return
  \/ Op_get_spout
  \/ Op_release
  \/ Stub_set_sender_name
  \/ Stub_get_name

NameSpec == Init /\ [][NameNext]_vars

\* The wrapper against the stub that keeps the named memory buffer.
MemoryNext ==
  \/ Return
  \/ Op_get_spout
  \/ Op_release
  \/ Stub_write_memory_buffer
  \/ Stub_read_memory_buffer

MemorySpec == Init /\ [][MemoryNext]_vars

\* ------------------------------------------------------------ host adapter
\* SpoutGd (src/src/godot.rs): each method calls the core and re-expresses
\* its Result.  A core call that does not return unwinds through the method.
Adapted(cores, value) == [core |-> cores, value |-> value]

\* match on the core's Result: the Ok arm, the Err arm.
MatchResult(core, ok, err) ==
  IF core.result.kind = "Ok" THEN ok
  ELSE IF core.result.kind \in {"Panic", "Abort"} THEN GdUnwound
  ELSE err

\* SpoutGd::get_spout
SpoutGd_get_spout(lib, handle) ==
  LET core == get_spout(lib, handle)
  IN  Adapted(<<core>>, MatchResult(core, GdError("OK"), GdError("ERR_UNAVAILABLE")))

\* Mutant: the adapter looks for a nul in the name itself and answers
\* without calling the core.
SpoutGd_set_sender_name_checks_itself(lib, name) ==
  IF NUL \in Range(name) THEN Adapted(<<>>, GdError("ERR_CANT_ACQUIRE_RESOURCE"))
  ELSE LET core == text_forward(lib, "set_sender_name", name, FALSE)
       IN  Adapted(<<core>>, MatchResult(core, GdError("OK"),
                                         GdError("ERR_CANT_ACQUIRE_RESOURCE")))

\* SpoutGd::set_sender_name
SpoutGd_set_sender_name(lib, name) ==
  LET core == text_forward(lib, "set_sender_name", name, FALSE)
  IN  Adapted(<<core>>, MatchResult(core, GdError("OK"),
                                    GdError("ERR_CANT_ACQUIRE_RESOURCE")))

\* SpoutGd::get_name
SpoutGd_get_name(lib, ptr, mem) ==
  LET core == string_ptr(lib, "get_name", ptr, mem)
  IN  Adapted(<<core>>, MatchResult(core, GdString,
                                    GdError("ERR_CANT_ACQUIRE_RESOURCE")))

\* SpoutGd::set_receiver_name
SpoutGd_set_receiver_name(lib, sender_name) ==
  LET core == text_forward(lib, "set_receiver_name", sender_name, FALSE)
  IN  Adapted(<<core>>, MatchResult(core, GdError("OK"), GdError("ERR_CANT_CONNECT")))

\* The largest u32, which has the width of c_int.
U32Max == Pow2(CIntBits) - 1

\* SpoutGd::read_memory_buffer: usize::try_from(u32), then the core call.
SpoutGd_read_memory_buffer(lib, buffer_name, max_length, checks, w) ==
  IF max_length > UsizeMax THEN Adapted(<<>>, GdError("ERR_INVALID_PARAMETER"))
  ELSE LET core == read_memory_buffer(lib, buffer_name, max_length, checks, w)
       IN  Adapted(<<core>>, MatchResult(core, GdString, GdError("ERR_INVALID_DATA")))

\* The result of a method that made no core call.
NotCalled == Res("NotCalled", "-", FALSE, <<>>, "-")

\* The host calls a method of SpoutGd: the core calls it made take effect
\* and its value goes back to the host.
GdPerform(op, args, answer, a) ==
  LET out == IF a.core = <<>> THEN Outcome(NotCalled, <<>>, library)
             ELSE a.core[Len(a.core)]
  IN  /\ Perform(op, args, answer, out)
      /\ host' = [value |-> a.value, cores |-> Len(a.core), left |-> out.library]

Gd_get_spout ==
  /\ Ready
  /\ \E handle \in {NULL} \cup (IF issued < MaxHandles THEN {issued + 1} ELSE {}) :
       /\ GdPerform("get_spout", NoArgs, Answer(<<>>, handle # NULL),
                    SpoutGd_get_spout(library, handle))
       /\ issued' = IF handle = NULL THEN issued ELSE issued + 1
       /\ caller' = [caller EXCEPT
                       !.cycles = caller.cycles /\ (handle = NULL \/ library = None)]
  /\ UNCHANGED engine

Gd_set_sender_name ==
  /\ Ready
  /\ \E name \in Text :
       GdPerform("set_sender_name", Args(<<name>>, NoCount), NoAnswer,
                 SpoutGd_set_sender_name(library, name))
  /\ UNCHANGED <<issued, engine, caller>>

Gd_get_name ==
  /\ Ready
  /\ \E ptr \in IF Called(string_ptr(library, "get_name", NULL, <<NUL>>)) THEN {NULL, 1}
                ELSE {NULL} :
       \E mem \in IF ptr = NULL THEN {<<NUL>>} ELSE EngineStrings :
         GdPerform("get_name", NoArgs, Answer(IF ptr = NULL THEN <<>> ELSE mem, ptr # NULL),
                   SpoutGd_get_name(library, ptr, mem))
  /\ UNCHANGED <<issued, engine, caller>>

Gd_set_receiver_name ==
  /\ Ready
  /\ \E sender_name \in Text :
       GdPerform("set_receiver_name", Args(<<sender_name>>, NoCount), NoAnswer,
                 SpoutGd_set_receiver_name(library, sender_name))
  /\ UNCHANGED <<issued, engine, caller>>

Gd_read_memory_buffer ==
  /\ Ready
  /\ \E buffer_name \in ShortText, max_length \in {c \in Capacities : c <= U32Max} \cup {U32Max} :
       \E w \in IF Called(read_memory_buffer(library, buffer_name, max_length,
                                             overflow_checks, <<>>))
                THEN Writes(max_length) ELSE {<<>>} :
         GdPerform("read_memory_buffer", Args(<<buffer_name>>, max_length),
                   Answer(w, FALSE),
                   SpoutGd_read_memory_buffer(library, buffer_name, max_length,
                                              overflow_checks, w))
  /\ UNCHANGED <<issued, engine, caller>>

\* The host drives the wrapper through SpoutGd.
GdNext ==
  \/ Return
  \/ Gd_get_spout
  \/ Gd_set_sender_name
  \/ Gd_get_name
  \/ Gd_set_receiver_name
  \/ Gd_read_memory_buffer
  \/ Op_drop

GdSpec == Init /\ [][GdNext]_vars

\* ------------------------------------------------------------------ claims
\* A capability operation: every public method but new, get_spout and Drop.
IsCapability(op) ==
  op \notin {"idle", "get_spout", "drop", "DxgiGpuPreference::try_into"}

InstanceCalls(calls) == {i \in 1..Len(calls) : calls[i].fn # "GetSpout"}

\* What a call made with no handle held comes to, by the shape of its body.
WithoutHandle(op) ==
  IF op \in UnbindableOps THEN ErrUnbindable
  ELSE IF op \in TodoOps THEN Panicked
  ELSE ErrNoHandle

\* C1 as stated: every capability operation called while no handle is held
\* returns NoHandle and makes no engine call, whatever its arguments.
C1_AllReturnNoHandle ==
  (IsCapability(last.op) /\ last.pre = None)
    => (last.result = ErrNoHandle /\ last.calls = <<>>)

\* C1 amended: called while no handle is held, no capability operation makes
\* an engine call; the operations guarded by library! return NoHandle, the
\* unbindable ones return Unbindable, and create_receiver and check_receiver,
\* whose body is todo!(), panic.
C1_NoHandleNoEngineCall ==
  (IsCapability(last.op) /\ last.pre = None)
    => (last.result = WithoutHandle(last.op) /\ last.calls = <<>>)

\* A guarded call with invalid arguments is refused for the missing handle.
C1_Witness ==
  /\ last.op = "write_memory_buffer"
  /\ last.pre = None
  /\ last.args.text = <<<<97>>, <<98, NUL>>>>
  /\ last.result = ErrNoHandle

\* C2 as stated: after acquire() and release(), any capability call made
\* before another successful acquire() returns NoHandle and does not reach
\* the engine.
C2_AfterReleaseAllNoHandle ==
  (/\ phase = "released"
   /\ IsCapability(last.op)
   /\ ~(last.op = "release" /\ last.result.kind = "Ok"))
    => (last.result = ErrNoHandle /\ last.calls = <<>>)

\* C2 amended: after acquire() and release(), no capability call made before
\* another successful acquire() reaches the engine (the released handle is
\* never used again); the guarded operations return NoHandle, the unbindable
\* ones Unbindable, and create_receiver and check_receiver panic.
C2_ReleasedHandleNotReused ==
  (/\ phase = "released"
   /\ IsCapability(last.op)
   /\ ~(last.op = "release" /\ last.result.kind = "Ok"))
    => (last.result = WithoutHandle(last.op) /\ last.calls = <<>>)

\* A forwarding call right after the release of the first handle.
C2_Witness ==
  /\ phase = "released"
  /\ released[1] = 1
  /\ last.op = "send_texture"
  /\ last.result = ErrNoHandle

\* C3: every engine instance call is made on the handle the wrapper stores
\* at that moment, a handle the factory returned (non-null) and that has not
\* been passed to the engine's Release before.
C3_CallsOnLiveStoredHandle ==
  \A i \in InstanceCalls(last.calls) :
    LET on == last.calls[i].on
    IN  /\ on # NULL
        /\ on = last.pre
        /\ on \in 1..issued
        /\ released[on] - ReleaseCalls(last.calls, on) = 0

\* A call dispatched to the second handle after the first was released.
C3_Witness ==
  /\ last.op = "set_sender_name"
  /\ Len(last.calls) = 1
  /\ last.calls[1].on = 2
  /\ released[1] = 1

\* C4 as stated: of two release() calls in succession on a wrapper that holds
\* a handle, the second makes no further engine Release call and returns the
\* same non-error result as the first.
C4_ReleaseIdempotent ==
  (last.op = "release" /\ prev = "Ok")
    => (last.result.kind = "Ok" /\ last.calls = <<>>)

\* C5: no handle is passed to the engine's Release more than once, Release is
\* only invoked on the handle the wrapper holds, and the teardown of a wrapper
\* that holds none (released before, or never acquired) makes no engine call.
C5_ReleaseAtMostOnce ==
  /\ \A h \in Handles : released[h] <= 1
  /\ \A i \in 1..Len(last.calls) :
       last.calls[i].fn = "Release"
         => (last.pre # None /\ last.calls[i].on = last.pre)
  /\ (last.op = "drop" /\ last.pre = None) => last.calls = <<>>

\* Teardown after an explicit release: the handle stays released once.
C5_Witness ==
  /\ life = "dropped"
  /\ last.op = "drop"
  /\ last.pre = None
  /\ last.calls = <<>>
  /\ released[1] = 1

\* C6 as stated: after teardown, every handle a successful acquire() obtained
\* has been passed to the engine's Release exactly once.
C6_NoHandleLeaked ==
  life = "dropped" => \A h \in 1..issued : released[h] = 1

\* C7: when the factory returns null, acquire() returns NoHandle, the stored
\* handle is what it was and no engine Release call is made.
C7_NullFactoryKeepsHandle ==
  (last.op = "get_spout" /\ ~last.answer.ret)
    => /\ last.result = ErrNoHandle
       /\ library = last.pre
       /\ \A i \in 1..Len(last.calls) : last.calls[i].fn # "Release"

\* A failed acquire() on a wrapper that holds a handle.
C7_Witness ==
  /\ last.op = "get_spout"
  /\ ~last.answer.ret
  /\ last.pre = 1
  /\ library = 1
  /\ last.result = ErrNoHandle

HasNul(texts) == \E i \in 1..Len(texts) : NUL \in Range(texts[i])

\* What a call with a nul in a text argument comes to while a handle is held.
WithNulText(op) ==
  IF op \in UnbindableOps THEN ErrUnbindable
  ELSE IF op \in TodoOps THEN Panicked
  ELSE ErrInto("CString")

\* C8 as stated: with a handle held, every operation taking text fails with
\* the string-encode error and calls no engine entry point when any of its
\* text arguments contains a nul byte.
C8_EveryTextOpRejectsNul ==
  (IsCapability(last.op) /\ last.pre # None /\ HasNul(last.args.text))
    => (last.result = ErrInto("CString") /\ last.calls = <<>>)

\* C8 amended: with a handle held, no operation issues an engine call when
\* any of its text arguments contains a nul byte, the second of two included;
\* the operations that encode their text fail with FfiTypeInto/CString, the
\* unbindable ones return Unbindable whatever the text is, and
\* create_receiver and check_receiver panic without looking at it.
C8_NulTextNeverReachesEngine ==
  (IsCapability(last.op) /\ last.pre # None /\ HasNul(last.args.text))
    => (last.result = WithNulText(last.op) /\ last.calls = <<>>)

\* Two text arguments, the nul in the second only.
C8_Witness ==
  /\ last.op = "write_memory_buffer"
  /\ last.pre # None
  /\ last.args.text = <<<<97>>, <<98, NUL>>>>
  /\ last.result = ErrInto("CString")
  /\ last.calls = <<>>

\* The operations that build an output buffer of a requested capacity.
CapacityOps == {"read_memory_buffer"} \cup IndexedBufferOps

IsError(result) == result.kind \notin {"Ok", "Panic", "Abort"}

\* C9 as stated: with a handle held, a requested capacity of 0 is answered
\* with an error result, without a panic and before any engine call.
C9_ZeroCapacityIsAnError ==
  (last.op \in CapacityOps /\ last.pre # None /\ last.args.cap = 0)
    => (IsError(last.result) /\ last.calls = <<>>)

\* C9 amended: with a handle held and nul-free text, a requested capacity of
\* 0 makes the operation panic while it sizes the buffer (no error result is
\* returned); no buffer is built and the engine is not called.
C9_ZeroCapacityPanics ==
  (/\ last.op \in CapacityOps
   /\ last.pre # None
   /\ last.args.cap = 0
   /\ ~HasNul(last.args.text))
    => (last.result = Panicked /\ last.calls = <<>>)

\* Capacity 0 in a build without overflow checks: the wrapped length is
\* refused by Vec.
C9_Witness ==
  /\ last.op = "get_sender"
  /\ last.pre # None
  /\ last.args.cap = 0
  /\ ~overflow_checks
  /\ last.result = Panicked

\* C10 as stated: with a handle held, a requested capacity beyond the range
\* of c_int makes the operation return FfiTypeInto/CInt before the engine is
\* called.
C10_OversizedCapacityIsCIntError ==
  (/\ last.op \in CapacityOps
   /\ last.pre # None
   /\ last.args.cap > CIntMax
   /\ ~HasNul(last.args.text))
    => (last.result = ErrInto("CInt") /\ last.calls = <<>>)

\* The operations that hand the engine an output buffer and return its text.
BufferOps == IndexedBufferOps \cup {"get_host_path", "get_active_sender"}

\* The bytes before the first terminator.
RECURSIVE BeforeNul(_)
BeforeNul(bytes) ==
  IF bytes = <<>> \/ Head(bytes) = NUL THEN <<>>
  ELSE <<Head(bytes)>> \o BeforeNul(Tail(bytes))

\* The buffer of the call as the engine left it, its final byte taken as a
\* terminator.
BufferAfterCall ==
  LET buf == Written(last.calls[1].buf, last.answer.w)
  IN  Append(SubSeq(buf, 1, Len(buf) - 1), NUL)

\* C11: the string an output-buffer operation returns is exactly the bytes
\* in the buffer before the first terminator, as the engine left them:
\* neither the terminator nor anything after it appears in the result.
C11_ResultStopsAtFirstTerminator ==
  (last.op \in BufferOps /\ last.calls # <<>> /\ last.result.kind = "Ok")
    => last.result.str = BeforeNul(BufferAfterCall)

\* The read of the buffer the caller last wrote, with room for all of it.
ReadBack ==
  /\ last.op = "read_memory_buffer"
  /\ last.pre # None
  /\ caller.wrote
  /\ last.args.text = <<caller.to>>
  /\ last.args.cap > Len(caller.data)
  /\ last.args.cap <= CIntMax

\* C12: against an engine that stores what is written, a successful
\* write_memory_buffer(name, v) followed by read_memory_buffer(name, capacity)
\* with capacity > Len(v) returns v.
C12_ReadReturnsWhatWasWritten ==
  ReadBack => (last.result.kind = "Ok" /\ last.result.str = caller.data)

\* C13: after a successful acquire, set_sender_name(n) followed by get_name()
\* returns exactly n, for every nul-free n (against an engine that keeps the
\* last name set), and the engine receives the bytes of n followed by one
\* terminator.
C13_NameRoundTrip ==
  /\ (last.op = "get_name" /\ last.pre # None /\ caller.named /\ caller.on = last.pre)
       => last.result = OkStr(FALSE, caller.name)
  /\ (last.op = "set_sender_name" /\ last.pre # None /\ ~HasNul(last.args.text))
       => /\ last.result = OkUnit
          /\ Len(last.calls) = 1
          /\ last.calls[1].strs = <<Append(last.args.text[1], NUL)>>
          /\ last.calls[1].on = last.pre

\* The name "ab" was set and read back.
C13_Witness ==
  /\ last.op = "get_name"
  /\ last.pre # None
  /\ caller.named
  /\ caller.on = last.pre
  /\ caller.name = <<97, 98>>
  /\ last.result = OkStr(FALSE, <<97, 98>>)

\* A pointer-returning query that reached the engine while a handle was held.
PointerQuery ==
  /\ last.op \in StringPtrOps \cup RawPtrOps
  /\ last.pre # None

\* C14: with a handle held, a null pointer from the engine makes get_name,
\* get_sender_name, get_dx11_device and get_dx11_context return NullPtr: the
\* call returns (no panic, no abort), the engine was called once and the
\* wrapper holds the same handle.
C14_NullPointerIsReported ==
  (PointerQuery /\ ~last.answer.ret)
    => /\ last.result = ErrNullPtr
       /\ Len(last.calls) = 1
       /\ library = last.pre

\* The engine answered get_name with a null pointer.
C14_Witness ==
  /\ last.op = "get_name"
  /\ last.pre # None
  /\ ~last.answer.ret
  /\ last.result = ErrNullPtr
  /\ library = last.pre

\* C15: a non-null engine string whose bytes before the terminator are not
\* UTF-8 makes get_name and get_sender_name return FfiTypeFrom; a string is
\* returned only when the bytes decode, and it is those bytes unchanged.
C15_InvalidUtf8IsDecodeError ==
  (last.op \in StringPtrOps /\ last.pre # None /\ last.answer.ret)
    => IF Utf8Valid(BeforeNul(last.answer.w))
       THEN last.result = OkStr(FALSE, BeforeNul(last.answer.w))
       ELSE last.result = ErrFrom("CStr")

\* The engine returned the byte 0xFF after a letter.
C15_Witness ==
  /\ last.op = "get_sender_name"
  /\ last.pre # None
  /\ last.answer.ret
  /\ last.answer.w = <<97, 255, NUL>>
  /\ last.result = ErrFrom("CStr")

\* C16: the integer mapping of DxgiGpuPreference is a bijection between the
\* four variants and -1..2: the code set_performance_preference passes for
\* a variant decodes to that variant, the variant get_performance_preference
\* returns for a code in -1..2 encodes to that code, and every other integer
\* of the engine yields UnexpectedValue.
C16_PreferenceCodesAreBijective ==
  /\ (last.op = "set_performance_preference" /\ last.pre # None
      /\ ~HasNul(last.args.text))
       => /\ Len(last.calls) = 1
          /\ last.calls[1].int \in -1..2
          /\ DxgiGpuPreference_try_from(last.calls[1].int) = OkVal(last.args.pref)
  /\ (last.op = "get_performance_preference" /\ last.calls # <<>>)
       => IF last.answer.val \in -1..2
          THEN /\ last.result.kind = "Ok"
               /\ last.result.val \in DxgiGpuPreference
               /\ DxgiGpuPreference_try_into(last.result.val)
                    = [ok |-> TRUE, v |-> last.answer.val]
          ELSE last.result = ErrUnexpectedValue

\* The engine answered with an integer that names no variant.
C16_Witness ==
  /\ last.op = "get_performance_preference"
  /\ last.pre # None
  /\ last.calls # <<>>
  /\ last.answer.val = 3
  /\ last.result = ErrUnexpectedValue

\* C17: the unbindable operations fail with Unbindable for every argument
\* and in every handle state, make no engine call and leave the stored
\* handle as it was.
C17_UnbindableAlwaysFails ==
  (last.op \in UnbindableOps)
    => /\ last.result = ErrUnbindable
       /\ last.calls = <<>>
       /\ library = last.pre

\* An unbindable operation called before any handle was acquired.
C17_Witness ==
  /\ last.op = "read_path_from_registry"
  /\ last.pre = None
  /\ phase = "new"
  /\ last.result = ErrUnbindable
  /\ library = None

\* C18: every capability operation, in either handle state and for any
\* arguments, returns to its caller with a typed result: none panics or
\* aborts, get_sender_info, create_receiver and check_receiver included.
C18_EveryCallReturns ==
  IsCapability(last.op) => last.result.kind \notin {"Panic", "Abort"}

\* C19: for every string without a nul byte, the encoding is the bytes of the
\* string followed by exactly one terminator, and decoding the encoded bytes
\* yields the string again; get_host_path, which encodes host_path and
\* decodes the same bytes, returns host_path when the engine wrote nothing.
C19_EncodeDecodeRoundTrip ==
  /\ \A s \in Text :
       NUL \notin Range(s)
         => /\ CString_new(s) = [ok |-> TRUE, bytes |-> Append(s, NUL)]
            /\ CStr_to_str(CString_new(s).bytes) = [ok |-> TRUE, str |-> s]
  /\ (last.op = "get_host_path" /\ last.calls # <<>> /\ last.answer.w = <<>>)
       => /\ last.calls[1].buf = Append(last.args.text[2], NUL)
          /\ last.result.kind = "Ok"
          /\ last.result.str = last.args.text[2]

\* "ab" went through the encoding and came back.
C19_Witness ==
  /\ last.op = "get_host_path"
  /\ last.pre # None
  /\ last.args.text[2] = <<97, 98>>
  /\ last.calls # <<>>
  /\ last.answer.w = <<>>
  /\ last.calls[1].buf = <<97, 98, NUL>>
  /\ last.result.str = <<97, 98>>

\* C20: when get_spout succeeds while a handle is already held, the handle
\* stored after the call is the handle that was stored before it.
C20_AcquireKeepsPriorHandle ==
  (last.op = "get_spout" /\ last.pre # None /\ last.result.kind = "Ok")
    => library = last.pre

\* C21: only get_spout, release and Drop change the stored handle: after
\* every other operation, whatever it returned, the wrapper holds a handle
\* exactly when it did before the call, and the same one.
C21_OnlyLifecycleChangesHandle ==
  (IsCapability(last.op) /\ last.op # "release") => library = last.pre

\* A capability call that failed while a handle was held.
C21_Witness ==
  /\ last.op = "get_dx11_context"
  /\ last.pre # None
  /\ last.result = ErrNullPtr
  /\ library = last.pre

\* The operations that pass the engine an output buffer and a count.
CountedBufferOps == CapacityOps \cup {"get_host_path"}

\* C22: at the engine call of an operation that passes an output buffer and
\* a count, the buffer has exactly as many bytes as the count says and its
\* last byte is a terminator.
C22_CountIsBufferLength ==
  (last.op \in CountedBufferOps /\ last.calls # <<>>)
    => /\ Len(last.calls[1].buf) = last.calls[1].count
       /\ last.calls[1].buf[Len(last.calls[1].buf)] = NUL

\* C23: each of the four variants of DxgiGpuPreference converts to a textual
\* token without error, and the four tokens are pairwise distinct.
C23_TextualMappingIsTotal ==
  /\ (last.op = "DxgiGpuPreference::try_into") => last.result.kind = "Ok"
  /\ \A p, q \in DxgiGpuPreference :
       p # q => DxgiGpuPreference_try_into_string(p).val
                  # DxgiGpuPreference_try_into_string(q).val

\* C24: write_memory_buffer passes as the count the length of the data with
\* its terminator; when that length is beyond c_int the call fails with
\* FfiTypeInto/CInt before any engine call.
C24_WriteCountIsExactLength ==
  (/\ last.op = "write_memory_buffer"
   /\ last.pre # None
   /\ ~HasNul(last.args.text))
    => IF Len(last.args.text[2]) + 1 <= CIntMax
       THEN /\ Len(last.calls) = 1
            /\ last.calls[1].count = Len(last.args.text[2]) + 1
       ELSE /\ last.result = ErrInto("CInt")
            /\ last.calls = <<>>

\* The operations whose result is the engine's status flag alone.
FlagOps ==
  StatusOps \cup TextStatusOps \cup {"write_memory_buffer", "set_performance_preference"}

\* C25: with a handle held, an engine call that reports failure through a
\* false flag is made once only, the operation returns Ok(false) and the
\* handle stays held.
C25_FalseFlagIsOkFalse ==
  (last.op \in FlagOps /\ last.pre # None /\ last.calls # <<>> /\ ~last.answer.ret)
    => /\ Len(last.calls) = 1
       /\ last.result = OkBool(FALSE)
       /\ library = last.pre

\* The engine refused to create the sender.
C25_Witness ==
  /\ last.op = "create_sender"
  /\ last.pre # None
  /\ Len(last.calls) = 1
  /\ ~last.answer.ret
  /\ last.result = OkBool(FALSE)
  /\ library = last.pre

\* The methods of the host adapter, by the core operation they call.
GdOps == {"get_spout", "set_sender_name", "get_name", "set_receiver_name",
          "read_memory_buffer"}

\* The value that stands for success of the adapter method.
GdSuccess(op) == IF op \in {"get_name", "read_memory_buffer"} THEN GdString ELSE GdError("OK")

\* C26: each host-adapter method makes exactly one call to its core
\* operation, returns its success value exactly when that call returned Ok
\* and a host error code exactly when it returned an error, and leaves the
\* stored handle as the core call left it.
C26_AdapterReExpressesCore ==
  (last.op \in GdOps)
    => /\ host.cores = 1
       /\ (host.value = GdSuccess(last.op)) <=> (last.result.kind = "Ok")
       /\ (host.value.kind = "Error" /\ host.value.code # "OK") <=> IsError(last.result)
       /\ library = host.left

\* The adapter turned a refused capacity into its error code.
C26_Witness ==
  /\ last.op = "read_memory_buffer"
  /\ last.pre # None
  /\ last.result = ErrInto("CInt")
  /\ host.cores = 1
  /\ host.value = GdError("ERR_INVALID_DATA")
  /\ library = last.pre

\* The operations that begin with the handle check.
IsGuarded(op) == IsCapability(op) /\ op \notin UnbindableOps \cup TodoOps

\* The arguments of the call would be refused if a handle were held.
InvalidArgs ==
  \/ HasNul(last.args.text)
  \/ last.op \in CapacityOps /\ (last.args.cap = 0 \/ last.args.cap > CIntMax)

\* C27: while no handle is held, a guarded operation called with invalid
\* arguments (a nul in a text, capacity 0, a capacity beyond c_int) returns
\* NoHandle, not an encode or range error, without a panic and without an
\* engine call.
C27_HandleCheckComesFirst ==
  (IsGuarded(last.op) /\ last.pre = None /\ InvalidArgs)
    => (last.result = ErrNoHandle /\ last.calls = <<>>)

\* Capacity 0 and a nul in the name, with no handle held.
C27_Witness ==
  /\ last.op = "read_memory_buffer"
  /\ last.pre = None
  /\ last.args.cap = 0
  /\ HasNul(last.args.text)
  /\ last.result = ErrNoHandle

\* The handle acquired by the call in a state reached by acquire/release
\* cycles, a handle having been obtained before.
Reacquired ==
  /\ last.op = "get_spout"
  /\ last.result.kind = "Ok"
  /\ last.pre = None
  /\ issued > 1

\* C28: the lifecycle repeats.  A successful get_spout after a release
\* stores the newly obtained handle; every engine call is made on the handle
\* stored at the time, which has not been released; and when every
\* acquisition was made with no handle held, after Drop each handle obtained
\* has been released exactly once.
C28_LifecycleRepeats ==
  /\ Reacquired => (library = issued /\ released[library] = 0)
  /\ \A i \in InstanceCalls(last.calls) :
       /\ last.calls[i].on = last.pre
       /\ last.calls[i].fn # "Release" => released[last.calls[i].on] = 0
  /\ (life = "dropped" /\ caller.cycles)
       => \A h \in Handles : released[h] = (IF h <= issued THEN 1 ELSE 0)

\* Two acquire/release cycles, the second ended by Drop.
C28_Witness ==
  /\ life = "dropped"
  /\ caller.cycles
  /\ issued = 2
  /\ last.op = "drop"
  /\ last.calls # <<>>
  /\ released[1] = 1
  /\ released[2] = 1

====
